---------------------------- MODULE Spec2Model ----------------------------
(***************************************************************************)
(* A model of proxy.py: the Cache class (a map and two sorted lists behind *)
(* one threading.Lock) and the CachedRequestHandler that uses it from one  *)
(* thread per request.                                                     *)
(*                                                                         *)
(* Spec      : threads call Cache.cache / Cache.get / Cache.has directly.  *)
(* ProxySpec : threads serve HTTP requests with do_GET / do_POST.          *)
(* Program counters are named after the source line they stand before.     *)
(***************************************************************************)
EXTENDS Integers, Sequences, FiniteSets, TLC

----------------------------------------------------------------------------
(* Bounds of the model *)

MaxTime == 3

Threads == {1, 2}

(* The thread that calls the Cache directly in Spec *)
Callers == {1}

(* Cache configuration, read from cache_config.json by Cache.__init__ *)

maxDuration == 2
minDuration == 1
maxBytes == 115
maxElems == 2

(* sys.getsizeof of a str: the object header, then one byte per character *)
StrOverhead == 37
Sizeof(data) == StrOverhead + Len(data)

(* Inputs of the direct calls *)

Urls == {"h/a", "h/b", "h/c"}
SizeArgs == {38, 60, maxBytes + 1}
DurationArgs == {minDuration - 1, minDuration, maxDuration + 1}
DataArgs == {"A"}
HeaderArgs == {<<>>}

VARIABLES
    map,          \* Cache.map: url -> CacheObject, a function on the stored urls
    accessList,   \* Cache.accessList: the stored urls sorted by lastAccessTime
    expireList,   \* Cache.expireList: the stored urls sorted by expirationTime
    numElems,     \* Cache.numElems
    numBytes,     \* Cache.numBytes
    lock,         \* Cache.lock: TRUE while the threading.Lock is held
    now,          \* the clock read by time.time()
    pc,           \* per thread: the source line it stands before
    stack,        \* per thread: the lines its pending calls return to
    args,         \* per thread: the arguments of its current Cache call
    result,       \* per thread: the value its last Cache call returned
    callTime,     \* per thread: the clock when its current Cache.get was called
    req,          \* per thread: the HTTP request it is serving
    conn,         \* per thread: its upstream HTTPConnection
    resp,         \* per thread: the upstream response it has read
    out           \* per thread: what it has written to the client

cacheVars == <<map, accessList, expireList, numElems, numBytes>>
handlerVars == <<req, conn, resp, out>>
vars == <<map, accessList, expireList, numElems, numBytes, lock, now,
          pc, stack, args, result, callTime, req, conn, resp, out>>

----------------------------------------------------------------------------
(* CacheObject and the sorted lists *)

None == <<>>

CacheObject(_url, _lastAccessTime, _expirationTime, _size, _data, _headers) ==
    [url |-> _url, lastAccessTime |-> _lastAccessTime,
     expirationTime |-> _expirationTime, size |-> _size,
     data |-> _data, headers |-> _headers]

NoArgs == [url |-> "", numBytes |-> 0, accessTime |-> 0, duration |-> 0,
           requested |-> 0, data |-> "", headers |-> <<>>]

(* blist.sortedlist.add: insert at the bisect_right position of the key;
   key[x] is the sort key of x *)
SortedAdd(list, u, key) ==
    LET i == Cardinality({j \in 1..Len(list) : key[list[j]] <= key[u]})
    IN  SubSeq(list, 1, i) \o <<u>> \o SubSeq(list, i + 1, Len(list))

(* the sort keys of the two lists: lines 89 and 90 *)
ByLastAccessTime(m) == [x \in DOMAIN m |-> m[x].lastAccessTime]
ByExpirationTime(m) == [x \in DOMAIN m |-> m[x].expirationTime]

(* blist.sortedlist.remove *)
SortedRemove(list, u) == SelectSeq(list, LAMBDA x : x # u)

(* del self.map[url] *)
MapDel(m, u) == [x \in (DOMAIN m) \ {u} |-> m[x]]

(* self.map[url] = obj *)
MapPut(m, u, obj) == [x \in (DOMAIN m) \cup {u} |-> IF x = u THEN obj ELSE m[x]]

(* The cache as one value, for the operators below *)
CacheState == [map |-> map, accessList |-> accessList, expireList |-> expireList,
               numElems |-> numElems, numBytes |-> numBytes]

(* A capacity loop that sheds the most recently accessed entry first *)
RECURSIVE CapacityPassNewestFirst(_)
CapacityPassNewestFirst(c) ==
    IF c.numElems > maxElems \/ c.numBytes > maxBytes
    THEN LET toRemove == c.accessList[Len(c.accessList)]
         IN  CapacityPassNewestFirst(
                 [map        |-> [x \in (DOMAIN c.map) \ {toRemove} |-> c.map[x]],
                  accessList |-> SubSeq(c.accessList, 1, Len(c.accessList) - 1),
                  expireList |-> SelectSeq(c.expireList, LAMBDA x : x # toRemove),
                  numElems   |-> c.numElems - 1,
                  numBytes   |-> c.numBytes - c.map[toRemove].size])
    ELSE c

(* A capacity loop that forgets the byte budget *)
RECURSIVE CapacityPassElemsOnly(_)
CapacityPassElemsOnly(c) ==
    IF c.numElems > maxElems
    THEN LET toRemove == Head(c.accessList)
         IN  CapacityPassElemsOnly(
                 [map        |-> [x \in (DOMAIN c.map) \ {toRemove} |-> c.map[x]],
                  accessList |-> Tail(c.accessList),
                  expireList |-> SelectSeq(c.expireList, LAMBDA x : x # toRemove),
                  numElems   |-> c.numElems - 1,
                  numBytes   |-> c.numBytes - c.map[toRemove].size])
    ELSE c

(* checkCacheIntegrity, first loop: shed least recently accessed entries *)
RECURSIVE CapacityPass(_)
CapacityPass(c) ==
    IF c.numElems > maxElems \/ c.numBytes > maxBytes
    THEN LET toRemove == Head(c.accessList)
         IN  CapacityPass([map        |-> MapDel(c.map, toRemove),
                           accessList |-> Tail(c.accessList),
                           expireList |-> SortedRemove(c.expireList, toRemove),
                           numElems   |-> c.numElems - 1,
                           numBytes   |-> c.numBytes - c.map[toRemove].size])
    ELSE c

(* An expiry loop that also drops the entries expiring right now *)
RECURSIVE ExpiryPassInclusive(_, _)
ExpiryPassInclusive(c, t) ==
    IF c.numElems > 0 /\ c.map[Head(c.expireList)].expirationTime <= t
    THEN LET toRemove == Head(c.expireList)
         IN  ExpiryPassInclusive(
                 [map        |-> [x \in (DOMAIN c.map) \ {toRemove} |-> c.map[x]],
                  accessList |-> SelectSeq(c.accessList, LAMBDA x : x # toRemove),
                  expireList |-> Tail(c.expireList),
                  numElems   |-> c.numElems - 1,
                  numBytes   |-> c.numBytes - c.map[toRemove].size], t)
    ELSE c

(* An expiry loop that never runs *)
ExpiryPassSkipped(c, t) == c

(* checkCacheIntegrity, second loop: drop expired entries, t = time.time() *)
RECURSIVE ExpiryPass(_, _)
ExpiryPass(c, t) ==
    IF c.numElems > 0 /\ c.map[Head(c.expireList)].expirationTime < t
    THEN LET toRemove == Head(c.expireList)
         IN  ExpiryPass([map        |-> MapDel(c.map, toRemove),
                         accessList |-> SortedRemove(c.accessList, toRemove),
                         expireList |-> Tail(c.expireList),
                         numElems   |-> c.numElems - 1,
                         numBytes   |-> c.numBytes - c.map[toRemove].size], t)
    ELSE c

checkCacheIntegrity(c, t) == ExpiryPass(CapacityPass(c), t)

(* An insertion that leaves line 138 out: numBytes is not counted up *)
CacheInsertUncounted(c, a) ==
    LET toCache == [url |-> a.url, lastAccessTime |-> a.accessTime,
                    expirationTime |-> a.accessTime + a.duration,
                    size |-> a.numBytes, data |-> a.data, headers |-> a.headers]
        m == [x \in (DOMAIN c.map) \cup {a.url} |->
                 IF x = a.url THEN toCache ELSE c.map[x]]
    IN  [map        |-> m,
         accessList |-> Append(c.accessList, a.url),
         expireList |-> Append(c.expireList, a.url),
         numElems   |-> c.numElems + 1,
         numBytes   |-> c.numBytes]

(* Cache.cache, lines 136-142: build the entry and add it to the three structures *)
CacheInsert(c, a) ==
    LET toCache == CacheObject(a.url, a.accessTime, a.accessTime + a.duration,
                               a.numBytes, a.data, a.headers)
        m == MapPut(c.map, a.url, toCache)
    IN  [map        |-> m,
         accessList |-> SortedAdd(c.accessList, a.url, ByLastAccessTime(m)),
         expireList |-> SortedAdd(c.expireList, a.url, ByExpirationTime(m)),
         numElems   |-> c.numElems + 1,
         numBytes   |-> c.numBytes + a.numBytes]

(* A refresh that leaves the entry at its old place in accessList *)
CacheTouchInPlace(c, u, timeNow) ==
    [c EXCEPT !.map = [c.map EXCEPT ![u].lastAccessTime = timeNow]]

(* Cache.get, lines 160-164: move the entry to its new place in accessList *)
CacheTouch(c, u, timeNow) ==
    LET m == [c.map EXCEPT ![u].lastAccessTime = timeNow]
    IN  [c EXCEPT !.map = m,
                  !.accessList = SortedAdd(SortedRemove(c.accessList, u), u,
                                           ByLastAccessTime(m))]

(* A duration that is stored as the caller passed it *)
ClampDurationNone(duration) == duration

(* Cache.cache, lines 120-123: the duration that is stored *)
ClampDuration(duration) ==
    IF duration >= maxDuration THEN maxDuration ELSE duration

(* A check of the arguments that lets every size through *)
RejectedShortOnly(_numBytes, duration) == duration < minDuration

(* Cache.cache, lines 120-126: the arguments that are not cached *)
Rejected(_numBytes, duration) ==
    duration < minDuration \/ _numBytes > maxBytes

SetCache(c) ==
    /\ map' = c.map
    /\ accessList' = c.accessList
    /\ expireList' = c.expireList
    /\ numElems' = c.numElems
    /\ numBytes' = c.numBytes


(* The handler's locals before a request arrives *)
NoRequest == [method |-> "", netloc |-> "", path |-> "", query |-> ""]
NoResponse == [status |-> 0, headers |-> <<>>, body |-> ""]
NoOutput == [statusLines |-> <<>>, headers |-> <<>>, body |-> ""]

(* The requests that arrive: self.command and self.path, the url in its parts *)
Request(m, p, q) == [method |-> m, netloc |-> "h", path |-> p, query |-> q]
Requests ==
    {Request("GET", "/a", ""), Request("GET", "/a", "q=1"),
     Request("GET", "/b", ""),
     Request("GET", "/n", ""), Request("GET", "/r", ""),
     Request("GET", "/e", ""), Request("GET", "/x", ""),
     Request("POST", "/a", "")}

(* The origin server: what it answers to a request for a path *)
BigBody == "XXXXXXXXXXXXXXXXXXXXXXXXXXXXXXXXXXXXXXXXXXXXXXXXXXXXXXXXXXXXXXXXXXXXXXXXXXXXXXXX"
Origin(path) ==
    CASE path = "/a" -> [status |-> 200, headers |-> <<<<"Content-type", "t">>>>,
                         body |-> "A"]
      [] path = "/b" -> [status |-> 203, headers |-> <<>>, body |-> "B"]
      [] path = "/n" -> [status |-> 200,
                         headers |-> <<<<"Cache-Control", "no-cache">>>>,
                         body |-> "N"]
      [] path = "/r" -> [status |-> 301, headers |-> <<<<"Location", "h/a">>>>,
                         body |-> ""]
      [] path = "/x" -> [status |-> 200, headers |-> <<>>, body |-> BigBody]
      [] OTHER       -> [status |-> 404, headers |-> <<>>, body |-> "E"]

(* urlparse.urlparse(self.path): the parts of the url *)
urlparse(r) == [netloc |-> r.netloc, path |-> r.path, query |-> r.query]

(* lines 197 and 233: the cache key, parsedRequest.netloc + parsedRequest.path *)
Key(r) == urlparse(r).netloc \o urlparse(r).path

(* str.lower over the header names the origin sends *)
lower(name) ==
    CASE name = "Cache-Control" -> "cache-control"
      [] name = "Cache-control" -> "cache-control"
      [] name = "Content-type" -> "content-type"
      [] name = "Location" -> "location"
      [] OTHER -> name

(* lines 217 and 240: response.getheaders(); httplib keeps the received
   headers in a dictionary keyed by the lower-cased name and returns its
   items, so every name comes back in lower case *)
getheaders(response) ==
    [i \in DOMAIN response.headers |->
        <<lower(response.headers[i][1]), response.headers[i][2]>>]

(* lines 218-223: the value of the header named Cache-control, or "" *)
RECURSIVE CacheControl(_)
CacheControl(headers) ==
    IF headers = <<>> THEN ""
    ELSE LET rest == CacheControl(Tail(headers))
         IN  IF rest # "" THEN rest
             ELSE IF Head(headers)[1] = "Cache-control" THEN Head(headers)[2]
             ELSE ""

(* lines 254-261: the status the handler sends for an exception *)
ExceptionStatus(e) ==
    CASE e = "NotConnected" -> 400
      [] e = "InvalidURL" -> 400
      [] e = "BadStatusLine" -> 500
      [] OTHER -> 500
Exceptions == {"NotConnected", "InvalidURL", "BadStatusLine", "timeout"}

(* send_response: one more status line on the wire *)
SendResponse(o, code) == [o EXCEPT !.statusLines = Append(@, code)]

----------------------------------------------------------------------------
(* Initial state: Cache.__init__, and every thread waiting for work *)

Init ==
    /\ map = <<>>
    /\ accessList = <<>>
    /\ expireList = <<>>
    /\ numElems = 0
    /\ numBytes = 0
    /\ lock = FALSE
    /\ now = 0
    /\ pc = [t \in Threads |-> "idle"]
    /\ stack = [t \in Threads |-> <<>>]
    /\ args = [t \in Threads |-> NoArgs]
    /\ result = [t \in Threads |-> None]
    /\ callTime = [t \in Threads |-> 0]
    /\ req = [t \in Threads |-> NoRequest]
    /\ conn = [t \in Threads |-> "none"]
    /\ resp = [t \in Threads |-> NoResponse]
    /\ out = [t \in Threads |-> NoOutput]

(* time.time() moves on *)
Tick ==
    /\ now < MaxTime
    /\ now' = now + 1
    /\ UNCHANGED <<cacheVars, lock, pc, stack, args, result, callTime, handlerVars>>

----------------------------------------------------------------------------
(* Cache.cache *)

(* lines 116-126: the call and the checks made before the lock is taken;
   duration is the local that line 123 overwrites, requested keeps the value
   the caller passed *)
CacheEnter(t, a, from) ==
    /\ args' = [args EXCEPT ![t] =
                   [url |-> a.url, numBytes |-> a.numBytes,
                    accessTime |-> a.accessTime,
                    duration |-> ClampDuration(a.duration),
                    requested |-> a.duration,
                    data |-> a.data, headers |-> a.headers]]
    /\ stack' = [stack EXCEPT ![t] = <<from>> \o @]
    /\ pc' = [pc EXCEPT ![t] = IF ~Rejected(a.numBytes, a.duration) THEN "cache_128"
                               ELSE IF a.duration < minDuration THEN "cache_121"
                               ELSE "cache_126"]

(* a return statement: back to the caller's line *)
ReturnTo(t) ==
    /\ pc' = [pc EXCEPT ![t] = Head(stack[t])]
    /\ stack' = [stack EXCEPT ![t] = Tail(@)]

(* lines 121 and 126: return without caching *)
CacheReject(t) ==
    /\ pc[t] \in {"cache_121", "cache_126"}
    /\ ReturnTo(t)
    /\ args' = [args EXCEPT ![t] = NoArgs]
    /\ UNCHANGED <<cacheVars, lock, now, result, callTime, handlerVars>>

(* line 128: self.lock.acquire() *)
CacheAcquire(t) ==
    /\ pc[t] = "cache_128"
    /\ lock = FALSE
    /\ lock' = TRUE
    /\ pc' = [pc EXCEPT ![t] = "cache_131"]
    /\ UNCHANGED <<cacheVars, now, stack, args, result, callTime, handlerVars>>

(* lines 131-134: the url is already cached, so call self.get(url) *)
CacheExisting(t) ==
    /\ pc[t] = "cache_131"
    /\ args[t].url \in DOMAIN map
    /\ pc' = [pc EXCEPT ![t] = "get_155"]
    /\ stack' = [stack EXCEPT ![t] = <<"cache_145">> \o @]
    /\ callTime' = [callTime EXCEPT ![t] = now]
    /\ UNCHANGED <<cacheVars, lock, now, args, result, handlerVars>>

(* lines 135-144: insert the new entry, then checkCacheIntegrity *)
CacheNew(t) ==
    /\ pc[t] = "cache_131"
    /\ args[t].url \notin DOMAIN map
    /\ SetCache(checkCacheIntegrity(CacheInsert(CacheState, args[t]), now))
    /\ pc' = [pc EXCEPT ![t] = "cache_145"]
    /\ UNCHANGED <<lock, now, stack, args, result, callTime, handlerVars>>

(* line 145: self.lock.release(), and the method returns *)
CacheRelease(t) ==
    /\ pc[t] = "cache_145"
    /\ lock' = FALSE
    /\ ReturnTo(t)
    /\ args' = [args EXCEPT ![t] = NoArgs]
    /\ UNCHANGED <<cacheVars, now, result, callTime, handlerVars>>

----------------------------------------------------------------------------
(* Cache.get *)

(* line 155: self.lock.acquire() *)
GetAcquire(t) ==
    /\ pc[t] = "get_155"
    /\ lock = FALSE
    /\ lock' = TRUE
    /\ pc' = [pc EXCEPT ![t] = "get_156"]
    /\ UNCHANGED <<cacheVars, now, stack, args, result, callTime, handlerVars>>

(* lines 156-157: checkCacheIntegrity, result = None *)
GetIntegrity(t) ==
    /\ pc[t] = "get_156"
    /\ SetCache(checkCacheIntegrity(CacheState, now))
    /\ result' = [result EXCEPT ![t] = None]
    /\ pc' = [pc EXCEPT ![t] = "get_158"]
    /\ UNCHANGED <<lock, now, stack, args, callTime, handlerVars>>

(* lines 158-165: on a hit, refresh lastAccessTime and take the entry *)
GetLookup(t) ==
    /\ pc[t] = "get_158"
    /\ IF args[t].url \in DOMAIN map
       THEN LET c == CacheTouch(CacheState, args[t].url, now)
            IN  /\ SetCache(c)
                /\ result' = [result EXCEPT ![t] = <<c.map[args[t].url]>>]
       ELSE UNCHANGED <<cacheVars, result>>
    /\ pc' = [pc EXCEPT ![t] = "get_167"]
    /\ UNCHANGED <<lock, now, stack, args, callTime, handlerVars>>

(* lines 167-168: self.lock.release(); return result *)
GetRelease(t) ==
    /\ pc[t] = "get_167"
    /\ lock' = FALSE
    /\ ReturnTo(t)
    /\ UNCHANGED <<cacheVars, now, args, result, callTime, handlerVars>>

----------------------------------------------------------------------------
(* Cache.has *)

(* line 172: self.lock.acquire() *)
HasAcquire(t) ==
    /\ pc[t] = "has_172"
    /\ lock = FALSE
    /\ lock' = TRUE
    /\ pc' = [pc EXCEPT ![t] = "has_173"]
    /\ UNCHANGED <<cacheVars, now, stack, args, result, callTime, handlerVars>>

(* line 173: result = url in self.map.keys() *)
HasLookup(t) ==
    /\ pc[t] = "has_173"
    /\ result' = [result EXCEPT ![t] = <<args[t].url \in DOMAIN map>>]
    /\ pc' = [pc EXCEPT ![t] = "has_174"]
    /\ UNCHANGED <<cacheVars, lock, now, stack, args, callTime, handlerVars>>

(* lines 174-175: self.lock.release(); return result *)
HasRelease(t) ==
    /\ pc[t] = "has_174"
    /\ lock' = FALSE
    /\ ReturnTo(t)
    /\ UNCHANGED <<cacheVars, now, args, result, callTime, handlerVars>>

----------------------------------------------------------------------------
(* Direct callers of the Cache: a thread calls one method and takes its result *)

CallCacheOf(t, urls, sizes, durations) ==
    /\ pc[t] = "idle"
    /\ \E u \in urls, n \in sizes, d \in durations,
          data \in DataArgs, h \in HeaderArgs :
          CacheEnter(t, [url |-> u, numBytes |-> n, accessTime |-> now,
                         duration |-> d, data |-> data, headers |-> h], "called")
    /\ UNCHANGED <<cacheVars, lock, now, result, callTime, handlerVars>>

CallGetOf(t, urls) ==
    /\ pc[t] = "idle"
    /\ \E u \in urls : args' = [args EXCEPT ![t] = [NoArgs EXCEPT !.url = u]]
    /\ callTime' = [callTime EXCEPT ![t] = now]
    /\ stack' = [stack EXCEPT ![t] = <<"called">> \o @]
    /\ pc' = [pc EXCEPT ![t] = "get_155"]
    /\ UNCHANGED <<cacheVars, lock, now, result, handlerVars>>

CallCache(t) == CallCacheOf(t, Urls, SizeArgs, DurationArgs)

CallGet(t) == CallGetOf(t, Urls)

CallHas(t) ==
    /\ pc[t] = "idle"
    /\ \E u \in Urls : args' = [args EXCEPT ![t] = [NoArgs EXCEPT !.url = u]]
    /\ stack' = [stack EXCEPT ![t] = <<"called">> \o @]
    /\ pc' = [pc EXCEPT ![t] = "has_172"]
    /\ UNCHANGED <<cacheVars, lock, now, result, callTime, handlerVars>>

(* the caller has its answer and is free for the next call *)
Called(t) ==
    /\ pc[t] = "called"
    /\ pc' = [pc EXCEPT ![t] = "idle"]
    /\ args' = [args EXCEPT ![t] = NoArgs]
    /\ result' = [result EXCEPT ![t] = None]
    /\ callTime' = [callTime EXCEPT ![t] = 0]
    /\ UNCHANGED <<cacheVars, lock, now, stack, handlerVars>>

CacheStep(t) ==
    \/ CacheReject(t)
    \/ CacheAcquire(t)
    \/ CacheExisting(t)
    \/ CacheNew(t)
    \/ CacheRelease(t)

GetStep(t) ==
    \/ GetAcquire(t)
    \/ GetIntegrity(t)
    \/ GetLookup(t)
    \/ GetRelease(t)

HasStep(t) ==
    \/ HasAcquire(t)
    \/ HasLookup(t)
    \/ HasRelease(t)

Next ==
    \/ Tick
    \/ \E t \in Callers :
          \/ CallCache(t)
          \/ CallGet(t)
          \/ CallHas(t)
          \/ Called(t)
          \/ CacheStep(t)
          \/ GetStep(t)
          \/ HasStep(t)

Spec == Init /\ [][Next]_vars

(* RaceSpec: every thread makes one direct call, a put or a get for the same
   url, and the calls run concurrently *)
RaceUrls == {"h/a"}
RaceSizes == {38}
RaceDurations == {minDuration - 1, maxDuration}

RacePut(t) == CallCacheOf(t, RaceUrls, RaceSizes, RaceDurations)

RaceGet(t) == CallGetOf(t, RaceUrls)

RaceNext ==
    \/ Tick
    \/ \E t \in Threads :
          \/ RacePut(t)
          \/ RaceGet(t)
          \/ CacheStep(t)
          \/ GetStep(t)

RaceSpec == Init /\ [][RaceNext]_vars

(* The scheduler lets every thread that can run, or that can run again and
   again, take its next step *)
FairSpec == Spec /\ \A t \in Callers :
    SF_vars(CallCache(t) \/ CallGet(t) \/ CallHas(t) \/ Called(t)
            \/ CacheStep(t) \/ GetStep(t) \/ HasStep(t))


----------------------------------------------------------------------------
(* CachedRequestHandler: one thread per request; the thread ends at "done" *)

(* a request arrives and its thread starts in do_GET or do_POST *)
Receive(t) ==
    /\ pc[t] = "idle"
    /\ \E r \in Requests :
          /\ req' = [req EXCEPT ![t] = r]
          /\ pc' = [pc EXCEPT ![t] = IF r.method = "GET" THEN "do_GET_193"
                                     ELSE "do_POST_187"]
    /\ UNCHANGED <<cacheVars, lock, now, stack, args, result, callTime,
                   conn, resp, out>>

(* A do_POST that handles the request the way do_GET does *)
DoPostAsGet(t) ==
    /\ pc[t] = "do_POST_187"
    /\ pc' = [pc EXCEPT ![t] = "do_GET_193"]
    /\ UNCHANGED <<cacheVars, lock, now, stack, args, result, callTime,
                   handlerVars>>

(* do_POST, lines 187-189: send_response(501) *)
DoPost(t) ==
    /\ pc[t] = "do_POST_187"
    /\ out' = [out EXCEPT ![t] = SendResponse(@, 501)]
    /\ pc' = [pc EXCEPT ![t] = "done"]
    /\ UNCHANGED <<cacheVars, lock, now, stack, args, result, callTime,
                   req, conn, resp>>

(* do_GET, lines 193-197: parse the url and call self.server.cache.get(key) *)
DoGetLookup(t) ==
    /\ pc[t] = "do_GET_193"
    /\ args' = [args EXCEPT ![t] = [NoArgs EXCEPT !.url = Key(req[t])]]
    /\ callTime' = [callTime EXCEPT ![t] = now]
    /\ stack' = [stack EXCEPT ![t] = <<"do_GET_198">> \o @]
    /\ pc' = [pc EXCEPT ![t] = "get_155"]
    /\ UNCHANGED <<cacheVars, lock, now, result, handlerVars>>

(* lines 198-204: a hit: send 200, the stored headers and the stored data *)
DoGetHit(t) ==
    /\ pc[t] = "do_GET_198"
    /\ result[t] # None
    /\ out' = [out EXCEPT ![t] =
                  [SendResponse(@, 200) EXCEPT !.headers = result[t][1].headers,
                                               !.body = result[t][1].data]]
    /\ pc' = [pc EXCEPT ![t] = "done"]
    /\ args' = [args EXCEPT ![t] = NoArgs]
    /\ UNCHANGED <<cacheVars, lock, now, stack, result, callTime, req, conn, resp>>

(* A fetch that does not look at what cache.get returned *)
DoGetFetchAlways(t) ==
    /\ pc[t] = "do_GET_198"
    /\ conn' = [conn EXCEPT ![t] = "open"]
    /\ resp' = [resp EXCEPT ![t] = Origin(urlparse(req[t]).path)]
    /\ pc' = [pc EXCEPT ![t] = "do_GET_215"]
    /\ args' = [args EXCEPT ![t] = NoArgs]
    /\ UNCHANGED <<cacheVars, lock, now, stack, result, callTime, req, out>>

(* lines 207-212: a miss: connect, send the request, read the status and headers *)
DoGetFetch(t) ==
    /\ pc[t] = "do_GET_198"
    /\ result[t] = None
    /\ conn' = [conn EXCEPT ![t] = "open"]
    /\ resp' = [resp EXCEPT ![t] = Origin(urlparse(req[t]).path)]
    /\ pc' = [pc EXCEPT ![t] = "do_GET_215"]
    /\ args' = [args EXCEPT ![t] = NoArgs]
    /\ UNCHANGED <<cacheVars, lock, now, stack, result, callTime, req, out>>

(* lines 210-212 raise, and lines 254-261 answer with an error status *)
DoGetFetchFails(t) ==
    /\ pc[t] = "do_GET_198"
    /\ result[t] = None
    /\ \E e \in Exceptions :
          /\ conn' = [conn EXCEPT ![t] = IF e \in {"BadStatusLine", "timeout"}
                                         THEN "open" ELSE "none"]
          /\ out' = [out EXCEPT ![t] = SendResponse(@, ExceptionStatus(e))]
    /\ pc' = [pc EXCEPT ![t] = "done"]
    /\ args' = [args EXCEPT ![t] = NoArgs]
    /\ UNCHANGED <<cacheVars, lock, now, stack, result, callTime, req, resp>>

(* A test that takes a redirect for a response to be cached *)
CacheableOrRedirect(status) == status >= 200 /\ status < 400

(* line 215: the statuses whose responses are cached *)
Cacheable(status) == status >= 200 /\ status < 300

(* lines 215-227 and 238-246: relay the status, the headers and the body *)
DoGetRelay(t) ==
    /\ pc[t] = "do_GET_215"
    /\ resp[t].status >= 200 /\ resp[t].status < 400
    /\ out' = [out EXCEPT ![t] =
                  [SendResponse(@, resp[t].status) EXCEPT
                      !.headers = getheaders(resp[t]), !.body = resp[t].body]]
    /\ pc' = [pc EXCEPT ![t] = IF Cacheable(resp[t].status) THEN "do_GET_230"
                               ELSE "do_GET_252"]
    /\ UNCHANGED <<cacheVars, lock, now, stack, args, result, callTime,
                   req, conn, resp>>

(* response.read() at line 226 or 245 raises after the status line and the
   headers were sent; the bare except at line 260 sends a 500 *)
DoGetRelayFails(t) ==
    /\ pc[t] = "do_GET_215"
    /\ resp[t].status >= 200 /\ resp[t].status < 400
    /\ out' = [out EXCEPT ![t] =
                  SendResponse([SendResponse(@, resp[t].status) EXCEPT
                                   !.headers = getheaders(resp[t])], 500)]
    /\ pc' = [pc EXCEPT ![t] = "done"]
    /\ UNCHANGED <<cacheVars, lock, now, stack, args, result, callTime,
                   req, conn, resp>>

(* lines 248-249: any other status: send_response(400) *)
DoGetOtherStatus(t) ==
    /\ pc[t] = "do_GET_215"
    /\ ~(resp[t].status >= 200 /\ resp[t].status < 400)
    /\ out' = [out EXCEPT ![t] = SendResponse(@, 400)]
    /\ pc' = [pc EXCEPT ![t] = "do_GET_252"]
    /\ UNCHANGED <<cacheVars, lock, now, stack, args, result, callTime,
                   req, conn, resp>>

(* lines 230-233: with cacheControl == "" call self.server.cache.cache,
   otherwise go on to line 252 *)
DoGetStore(t) ==
    /\ pc[t] = "do_GET_230"
    /\ IF CacheControl(getheaders(resp[t])) = ""
       THEN CacheEnter(t, [url |-> Key(req[t]), numBytes |-> Sizeof(resp[t].body),
                           accessTime |-> now, duration |-> maxDuration,
                           data |-> resp[t].body, headers |-> getheaders(resp[t])],
                       "do_GET_252")
       ELSE /\ pc' = [pc EXCEPT ![t] = "do_GET_252"]
            /\ UNCHANGED <<stack, args>>
    /\ UNCHANGED <<cacheVars, lock, now, result, callTime, handlerVars>>

(* line 252: connection.close() *)
DoGetClose(t) ==
    /\ pc[t] = "do_GET_252"
    /\ conn' = [conn EXCEPT ![t] = "closed"]
    /\ pc' = [pc EXCEPT ![t] = "done"]
    /\ UNCHANGED <<cacheVars, lock, now, stack, args, result, callTime,
                   req, resp, out>>

HandlerStep(t) ==
    \/ Receive(t)
    \/ DoPost(t)
    \/ DoGetLookup(t)
    \/ DoGetHit(t)
    \/ DoGetFetch(t)
    \/ DoGetFetchFails(t)
    \/ DoGetRelay(t)
    \/ DoGetRelayFails(t)
    \/ DoGetOtherStatus(t)
    \/ DoGetStore(t)
    \/ DoGetClose(t)

ProxyNext ==
    \/ Tick
    \/ \E t \in Threads :
          \/ HandlerStep(t)
          \/ CacheStep(t)
          \/ GetStep(t)

ProxySpec == Init /\ [][ProxyNext]_vars

FairProxySpec == ProxySpec /\ \A t \in Threads :
    SF_vars(HandlerStep(t) \/ CacheStep(t) \/ GetStep(t))

FairRaceSpec == RaceSpec /\ \A t \in Threads :
    SF_vars(RacePut(t) \/ RaceGet(t) \/ CacheStep(t) \/ GetStep(t))


----------------------------------------------------------------------------
(* The claims *)

(* C1: once a put has run its eviction (line 145 and after), and whenever no
   thread is inside the cache, numElems <= maxElems and numBytes <= maxBytes *)
C1_CapacityInvariant ==
    ((\E t \in Threads : pc[t] = "cache_145") \/ lock = FALSE)
        => (numElems <= maxElems /\ numBytes <= maxBytes)

(* C1 witness: a put has just finished and the cache is full: it holds
   maxElems entries and has no room for 38 more bytes *)
C1_Witness ==
    \E t \in Threads :
        /\ pc[t] = "cache_145"
        /\ numElems = maxElems
        /\ numBytes + 38 > maxBytes

(* C4: the entry that get returns at line 168 has expirationTime >= the clock
   at the time get was called *)
C4_ExpiryInvariant ==
    \A t \in Threads :
        (pc[t] = "get_167" /\ result[t] # None)
            => result[t][1].expirationTime >= callTime[t]

(* C4 witness: get returns an entry that expires exactly at the call time,
   after the clock has moved past the insertion *)
C4_Witness ==
    \E t \in Threads :
        /\ pc[t] = "get_167"
        /\ result[t] # None
        /\ result[t][1].expirationTime = callTime[t]
        /\ callTime[t] > 0


(* Two threads are in put for the same url, which is not stored, and neither
   has taken the lock yet *)
ConcurrentPuts(t1, t2) ==
    /\ pc[t1] = "cache_128"
    /\ pc[t2] = "cache_128"
    /\ args[t1].url = args[t2].url
    /\ args[t1].url \notin DOMAIN map

(* The put of thread t has returned to its caller *)
PutReturned(t) == pc[t] = "called"

(* C2: when two threads call put concurrently for the same url that is not
   stored, both calls return, leaving one entry for the url *)
C2_SingleWriterWins ==
    \A t1, t2 \in Threads :
        (t1 # t2 /\ ConcurrentPuts(t1, t2))
            ~> (/\ PutReturned(t1)
                /\ PutReturned(t2)
                /\ Len(SelectSeq(accessList, LAMBDA u : u \in RaceUrls)) <= 1)

(* A thread step of the proxy *)
ProxyThreadStep ==
    \E t \in Threads : HandlerStep(t) \/ CacheStep(t) \/ GetStep(t)

(* C3: every request reaches "done": while a request is unfinished, some
   thread can still take a step (no step of a thread depends on the clock, so
   a state without one keeps the request unfinished for ever) *)
C3_EveryRequestDone ==
    (\E t \in Threads : pc[t] \notin {"idle", "done"}) => ENABLED ProxyThreadStep

(* C5: a put for a url that is already stored returns to its caller *)
C5_PutOnExistingReturns ==
    \A t \in Threads :
        (pc[t] = "cache_131" /\ args[t].url \in DOMAIN map) ~> (pc[t] = "called")


(* C6, first half: at its return statement a get that hits holds the entry
   with the greatest lastAccessTime of all stored entries *)
HitIsMostRecent ==
    \A t \in Threads :
        (pc[t] = "get_167" /\ result[t] # None)
            => \A u \in DOMAIN map :
                   map[u].lastAccessTime <= map[args[t].url].lastAccessTime

(* C6, second half: an entry that a put removes although it has not expired
   (so the capacity loop removed it) is no more recent than any entry left *)
EvictionSparesRecent ==
    \A t \in Threads :
        (pc[t] = "cache_131" /\ pc'[t] = "cache_145")
            => \A k \in (DOMAIN map) \ (DOMAIN map') :
                   map[k].expirationTime >= now
                       => \A u \in DOMAIN map' :
                              map'[u].lastAccessTime >= map[k].lastAccessTime

(* C6: recency ordering: a hit makes its entry the most recent one, and
   capacity eviction never removes an entry while an older one stays *)
C6_RecencyOrdering == []HitIsMostRecent /\ [][EvictionSparesRecent]_vars

(* C6 witness: a put that must evict arrives when the entry stored first has
   been refreshed by a get and is now more recent than the other entry *)
C6_Witness ==
    \E t \in Threads :
        /\ pc[t] = "cache_131"
        /\ args[t].url \notin DOMAIN map
        /\ numElems = maxElems
        /\ \E k, u \in DOMAIN map :
              /\ map[k].lastAccessTime >= map[k].expirationTime
              /\ map[k].expirationTime >= now
              /\ map[u].lastAccessTime < map[k].lastAccessTime
              /\ map[u].expirationTime >= now

(* The stored urls that have not expired at the clock's present reading *)
Live == {u \in DOMAIN map : map[u].expirationTime >= now}

RECURSIVE SumSizes(_, _)
SumSizes(m, S) ==
    IF S = {} THEN 0
    ELSE LET u == CHOOSE x \in S : TRUE IN m[u].size + SumSizes(m, S \ {u})

(* The two steps of a get for a url that is not stored *)
MissIntegrityStep(t) ==
    pc[t] = "get_156" /\ args[t].url \notin DOMAIN map /\ pc'[t] = "get_158"
MissLookupStep(t) ==
    pc[t] = "get_158" /\ args[t].url \notin DOMAIN map /\ pc'[t] = "get_167"

(* C9 as claimed: a get for a url that is not stored changes nothing in the
   cache and returns None *)
C9_MissChangesNothing ==
    [][\A t \in Threads :
          (MissIntegrityStep(t) \/ MissLookupStep(t))
              => (UNCHANGED cacheVars /\ result'[t] = None)]_vars

(* C9 amended: a get for a url that is not stored returns None and changes
   the cache only by removing the expired entries: exactly the entries with
   expirationTime < now go, from the map and both lists, and the counters
   follow; with no expired entry nothing changes *)
C9_MissOnlyDropsExpired ==
    [][\A t \in Threads :
          /\ MissIntegrityStep(t)
                => /\ result'[t] = None
                   /\ DOMAIN map' = Live
                   /\ \A u \in Live : map'[u] = map[u]
                   /\ accessList' = SelectSeq(accessList, LAMBDA u : u \in Live)
                   /\ expireList' = SelectSeq(expireList, LAMBDA u : u \in Live)
                   /\ numElems' = Cardinality(Live)
                   /\ numBytes' = SumSizes(map, Live)
          /\ MissLookupStep(t)
                => (UNCHANGED cacheVars /\ result'[t] = None)]_vars

(* C9 witness: a get for a url that is not stored is about to run its
   housekeeping while one stored entry has expired and another expires now *)
C9_Witness ==
    \E t \in Threads :
        /\ pc[t] = "get_156"
        /\ args[t].url \notin DOMAIN map
        /\ \E u, v \in DOMAIN map :
              map[u].expirationTime < now /\ map[v].expirationTime = now

(* A put of a new url into a cache that holds maxElems entries *)
PutOverflows(t) ==
    /\ pc[t] = "cache_131"
    /\ args[t].url \notin DOMAIN map
    /\ numElems = maxElems
    /\ pc'[t] = "cache_145"

(* The entries after the insertion, and their times *)
Inserted(t) == (DOMAIN map) \cup {args[t].url}
LastOf(t, u) ==
    IF u = args[t].url THEN args[t].accessTime ELSE map[u].lastAccessTime
ExpiryOf(t, u) ==
    IF u = args[t].url THEN args[t].accessTime + args[t].duration
    ELSE map[u].expirationTime
SizeOf(t, u) == IF u = args[t].url THEN args[t].numBytes ELSE map[u].size

NothingExpired(t) == \A u \in Inserted(t) : ExpiryOf(t, u) >= now
BytesFit(t) ==
    \A u \in Inserted(t) : numBytes + args[t].numBytes - SizeOf(t, u) <= maxBytes

(* C10 as claimed: after such a put exactly maxElems entries remain, and the
   one removed is the stored entry with the least lastAccessTime *)
C10_EvictsOneLeastRecent ==
    [][\A t \in Threads :
          PutOverflows(t)
              => /\ numElems' = maxElems
                 /\ \E k \in DOMAIN map :
                       /\ DOMAIN map' = Inserted(t) \ {k}
                       /\ \A u \in DOMAIN map :
                              map[u].lastAccessTime >= map[k].lastAccessTime]_vars

(* C10 amended: after such a put at most maxElems entries remain; when no
   entry has expired and the bytes fit once one entry is gone, exactly
   maxElems remain and the one removed has the least lastAccessTime of all *)
C10_EvictsLeastRecentFirst ==
    [][\A t \in Threads :
          PutOverflows(t)
              => /\ numElems' <= maxElems
                 /\ (NothingExpired(t) /\ BytesFit(t))
                         => /\ numElems' = maxElems
                            /\ \E k \in Inserted(t) :
                                  /\ DOMAIN map' = Inserted(t) \ {k}
                                  /\ \A u \in Inserted(t) :
                                         LastOf(t, u) >= LastOf(t, k)]_vars

(* C10 witness: such a put is about to insert, nothing has expired, the
   bytes fit, and the two stored entries differ in lastAccessTime *)
C10_Witness ==
    \E t \in Threads :
        /\ pc[t] = "cache_131"
        /\ args[t].url \notin DOMAIN map
        /\ numElems = maxElems
        /\ NothingExpired(t)
        /\ BytesFit(t)
        /\ \E k, u \in DOMAIN map :
               map[k].lastAccessTime < map[u].lastAccessTime


(* The request of thread t was answered from the cache *)
AnsweredFromCache(t) ==
    pc[t] = "done" /\ req[t].method = "GET" /\ result[t] # None

(* C7: a hit sends the client the status code, the headers and the body of
   the upstream response that was cached for the url *)
C7_HitReplaysUpstream ==
    \A t \in Threads :
        AnsweredFromCache(t)
            => LET upstream == Origin(req[t].path)
               IN  out[t] = [statusLines |-> <<upstream.status>>,
                             headers |-> getheaders(upstream),
                             body |-> upstream.body]

(* C8: requests for one authority and path with different query strings use
   different cache keys, so a request that is answered from the cache is
   answered with what a request with the same query string had stored *)
C8_QueryIsPartOfKey ==
    \A t \in Threads :
        AnsweredFromCache(t)
            => \E s \in Threads \ {t} :
                   /\ req[s].method = "GET"
                   /\ req[s].netloc = req[t].netloc
                   /\ req[s].path = req[t].path
                   /\ req[s].query = req[t].query

(* Thread t is in a put whose arguments the checks at lines 120 and 125 turn
   away: the duration is below minDuration or the size is above maxBytes *)
InRejectedPut(t) ==
    /\ pc[t] \in {"cache_121", "cache_126", "cache_128", "cache_131", "cache_145"}
    /\ (args[t].duration < minDuration \/ args[t].numBytes > maxBytes)

(* C11: a put with duration < minDuration or numBytes > maxBytes changes
   nothing: from the call to the return the map, both lists, numElems and
   numBytes stay as they are, the lock is not taken, and the next step of the
   thread is the return to its caller *)
C11_RejectedPutIsNoOp ==
    [][\A t \in Threads :
          /\ InRejectedPut(t)' => UNCHANGED <<cacheVars, lock>>
          /\ InRejectedPut(t)
                => /\ UNCHANGED <<cacheVars, lock>>
                   /\ pc'[t] \in {pc[t], "called"}]_vars

(* C11 witness: a put that is too big for the cache has returned at line 126
   while the cache holds an entry *)
C11_Witness ==
    \E t \in Threads :
        /\ pc[t] = "cache_126"
        /\ args[t].numBytes > maxBytes
        /\ args[t].duration >= minDuration
        /\ numElems > 0

(* The duration the claim says is stored for a requested duration *)
EffectiveDuration(requestedDuration) ==
    IF requestedDuration > maxDuration THEN maxDuration ELSE requestedDuration

(* A put stores its entry: the step from line 131 to line 145 that leaves
   the entry in the map (an entry whose accessTime + duration is already past
   goes again in the checkCacheIntegrity of line 144) *)
PutStores(t) ==
    /\ pc[t] = "cache_131"
    /\ args[t].url \notin DOMAIN map
    /\ pc'[t] = "cache_145"
    /\ args[t].url \in DOMAIN map'

(* C12: the entry a put stores has expirationTime = accessTime + maxDuration
   when the requested duration is above maxDuration and accessTime + the
   requested duration when it is between minDuration and maxDuration; no
   step changes the expirationTime of a stored entry *)
C12_TtlClamping ==
    [][/\ \A t \in Threads :
              PutStores(t)
                  => /\ args[t].requested >= minDuration
                     /\ map'[args[t].url].expirationTime =
                            args[t].accessTime + EffectiveDuration(args[t].requested)
       /\ \A u \in (DOMAIN map) \cap (DOMAIN map') :
              map'[u].expirationTime = map[u].expirationTime]_vars

(* C12 witness: a put that asked for more than maxDuration has stored its
   entry, after the clock has moved, next to an entry that a get refreshed *)
C12_Witness ==
    \E t \in Threads :
        /\ pc[t] = "cache_145"
        /\ args[t].requested > maxDuration
        /\ args[t].url \in DOMAIN map
        /\ args[t].accessTime > 0
        /\ \E u \in DOMAIN map :
              map[u].lastAccessTime > map[u].expirationTime - map[u].lastAccessTime
                  /\ u # args[t].url

(* C13: a GET whose cache.get returned an entry opens no upstream connection
   and reads no upstream response, from the lookup to the end of the request *)
C13_HitOpensNoConnection ==
    \A t \in Threads :
        (req[t].method = "GET" /\ result[t] # None)
            => (conn[t] = "none" /\ resp[t] = NoResponse)

(* C13 witness: a GET has been answered from the cache while the other
   thread, which stored the entry, has closed its upstream connection *)
C13_Witness ==
    \E t, s \in Threads :
        /\ AnsweredFromCache(t)
        /\ out[t].statusLines # <<>>
        /\ conn[s] = "closed"
        /\ Key(req[s]) = Key(req[t])

(* The headers carry a cache-control header with a value, whatever the case
   of its name *)
HasCacheControl(headers) ==
    \E i \in DOMAIN headers :
        lower(headers[i][1]) = "cache-control" /\ headers[i][2] # ""

(* C14: a response that carries a cache-control header with a value is never
   put into the cache: no stored entry has such a header *)
C14_CacheControlSkipsPut ==
    \A u \in DOMAIN map : ~HasCacheControl(map[u].headers)

(* The GET of thread t is over and was a miss whose fetch failed, or whose
   upstream status was outside [200,400) *)
FailedMiss(t) ==
    /\ pc[t] = "done"
    /\ req[t].method = "GET"
    /\ result[t] = None
    /\ (resp[t] = NoResponse \/ resp[t].status < 200 \/ resp[t].status >= 400)

(* The step that inserts into the cache *)
Inserts(t) == pc[t] = "cache_131" /\ pc'[t] = "cache_145"

(* C15: only a thread that read an upstream status in [200,300) inserts into
   the cache, so a redirect, another status or a failed fetch never does; and
   the client of a miss with a status outside [200,400) or with a failed
   fetch gets one status line, with a status of 400 or more *)
C15_FailuresAreNotCached ==
    /\ [][\A t \in Threads :
              Inserts(t) => (resp[t].status >= 200 /\ resp[t].status < 300)]_vars
    /\ [](\A t \in Threads :
              FailedMiss(t) => /\ Len(out[t].statusLines) = 1
                               /\ out[t].statusLines[1] >= 400)

(* C15 witness: one request ended with an upstream 404 and another with a
   failed fetch, and the cache is still empty *)
C15_Witness ==
    \E t, s \in Threads :
        /\ FailedMiss(t) /\ resp[t].status = 404
        /\ FailedMiss(s) /\ resp[s] = NoResponse
        /\ numElems = 0

(* C16: when a GET that opened an upstream connection is over, the
   connection has been closed *)
C16_ConnectionClosed ==
    \A t \in Threads :
        (pc[t] = "done" /\ conn[t] # "none") => conn[t] = "closed"

(* Thread t serves a request whose method is not GET *)
NonGet(t) == req[t].method \notin {"", "GET"}

(* C17: a request that is not a GET never enters the cache or opens an
   upstream connection: its thread goes from do_POST straight to the end,
   its steps leave the cache and the lock as they are, and the client gets
   the one status line 501 *)
C17_NonGetRejected ==
    /\ [](\A t \in Threads :
              NonGet(t)
                  => /\ pc[t] \in {"do_POST_187", "done"}
                     /\ conn[t] = "none"
                     /\ resp[t] = NoResponse
                     /\ args[t] = NoArgs
                     /\ result[t] = None
                     /\ stack[t] = <<>>
                     /\ pc[t] = "done" => out[t].statusLines = <<501>>)
    /\ [][\A t \in Threads :
              (NonGet(t)' /\ pc'[t] # pc[t]) => UNCHANGED <<cacheVars, lock>>]_vars

(* C17 witness: a POST has been answered while the cache holds an entry that
   the other thread stored *)
C17_Witness ==
    \E t \in Threads :
        /\ NonGet(t)
        /\ pc[t] = "done"
        /\ out[t].statusLines # <<>>
        /\ numElems > 0

(* The urls a list refers to, and whether it refers to each of them once *)
Range(list) == {list[i] : i \in DOMAIN list}
NoDuplicates(list) == Cardinality(Range(list)) = Len(list)

(* The map, the two lists and the two counters describe the same entries *)
Consistent ==
    /\ Range(accessList) = DOMAIN map
    /\ NoDuplicates(accessList)
    /\ Range(expireList) = DOMAIN map
    /\ NoDuplicates(expireList)
    /\ \A u \in DOMAIN map : map[u].url = u
    /\ numElems = Cardinality(DOMAIN map)
    /\ numBytes = SumSizes(map, DOMAIN map)

(* C18: whenever the lock is free, accessList and expireList refer to exactly
   the entries of the map, each once, numElems is the number of entries and
   numBytes the sum of their sizes *)
C18_StructuresAgree == (lock = FALSE) => Consistent

(* C18 witness: the lock is free, the cache is full, the two lists order its
   entries differently, and one of them has expired but is still stored *)
C18_Witness ==
    /\ lock = FALSE
    /\ numElems = maxElems
    /\ accessList # expireList
    /\ \E u \in DOMAIN map : map[u].expirationTime < now

(* C19: the client of a request is sent at most one status line *)
C19_OneStatusLine ==
    \A t \in Threads : Len(out[t].statusLines) <= 1

(* The step of has that reads the map: line 173 *)
HasReads(t) == pc[t] = "has_173" /\ pc'[t] = "has_174"

(* C20: has never answers True for a url whose entry has expired: when has
   reads the map and answers True, the entry has expirationTime >= now, as a
   get at the same moment would require for a hit *)
C20_HasAgreesWithGet ==
    [][\A t \in Threads :
          (HasReads(t) /\ result'[t] = <<TRUE>>)
              => map[args[t].url].expirationTime >= now]_vars

=============================================================================
